---- MODULE Spec2Model ----
(***************************************************************************)
(* Model of the accounts application: UserManager.create_user and          *)
(* UserManager.create_superuser, the User and UserProfile tables they and  *)
(* the registered admin write to, and the two permission predicates of     *)
(* User.  The store is the database; each save() or delete() is one        *)
(* database statement run in autocommit mode, so it is one atomic step,    *)
(* and a method that saves twice takes two steps.                          *)
(***************************************************************************)
EXTENDS Integers, Sequences, FiniteSets, TLC

(***************************************************************************)
(* Bounds of the model.                                                    *)
(***************************************************************************)
MaxUsers == 2
MaxProfiles == 2
MaxTime == 1

Procs == {"p1", "p2"}

(***************************************************************************)
(* Values.  Strings are sequences of characters so that normalize_email    *)
(* can be computed; None is a one-element sequence holding no character.   *)
(***************************************************************************)
None == <<"None">>
NoPk == 0

RESTAURANT == 1
CUSTOMER == 2
NoRole == 0
Roles == {NoRole, RESTAURANT, CUSTOMER}

Emails == { None, <<>>, <<"a", "@", "x">>, <<"a", "@", "X">>, <<"b">> }
Usernames == { None, <<>>, <<"u">>, <<"v">> }
FirstNames == { <<"f">> }
LastNames == { <<"l">> }
Passwords == { <<"s">> }
Cities == { None, <<"c">> }

\* Python truthiness of an optional string: None and "" are falsy.
Truthy(s) == s # None /\ s # <<>>

\* str.lower() on one character.
LowerChar(c) == IF c = "X" THEN "x" ELSE IF c = "A" THEN "a" ELSE IF c = "B" THEN "b" ELSE c

Lower(s) == [i \in 1..Len(s) |-> LowerChar(s[i])]

\* Positions of "@" in s.
AtPositions(s) == { i \in 1..Len(s) : s[i] = "@" }

LastAt(s) == CHOOSE i \in AtPositions(s) : \A j \in AtPositions(s) : j <= i

\* str.strip(): drop leading and trailing blanks.
RECURSIVE StripLeft(_)
StripLeft(s) == IF s # <<>> /\ Head(s) = " " THEN StripLeft(Tail(s)) ELSE s

RECURSIVE StripRight(_)
StripRight(s) == IF s # <<>> /\ s[Len(s)] = " " THEN StripRight(SubSeq(s, 1, Len(s) - 1)) ELSE s

Strip(s) == StripRight(StripLeft(s))

\* BaseUserManager.normalize_email: "email or ''", then lowercase what follows
\* the last "@" of the stripped address; an address without "@" is returned as is.
normalize_email(email) ==
    LET e == IF Truthy(email) THEN email ELSE <<>>
        t == Strip(e)
    IN  IF AtPositions(t) = {}
        THEN e
        ELSE SubSeq(t, 1, LastAt(t)) \o Lower(SubSeq(t, LastAt(t) + 1, Len(t)))

\* set_password: a one-way transform; None gives an unusable password.
make_password(pw) == IF pw = None THEN <<"!">> ELSE <<"h">> \o pw

(***************************************************************************)
(* State.                                                                  *)
(***************************************************************************)
VARIABLES
    users,       \* the User table: pk -> row
    nextId,      \* the next primary key of the User table
    profiles,    \* the UserProfile table: id -> row
    nextPid,     \* the next primary key of the UserProfile table
    now,         \* the clock the timestamps are taken from
    run,         \* per process: the create_superuser call it is inside, if any
    last,        \* the outcome of the manager call or User deletion that ended last
    probe,       \* the User the permission predicates are evaluated on
    permRes      \* what the permission predicates returned

vars == << users, nextId, profiles, nextPid, now, run, last, probe, permRes >>

\* NewUser with is_active defaulting to True, as in the stock User model.
NewUser_ActiveByDefault(email, username, first_name, last_name) ==
    [ email |-> email, username |-> username,
      first_name |-> first_name, last_name |-> last_name,
      password |-> <<>>, role |-> NoRole,
      date_joined |-> 0, last_login |-> 0, modified_date |-> 0, created_date |-> 0,
      is_admin |-> FALSE, is_active |-> TRUE, is_superadmin |-> FALSE,
      is_staff |-> FALSE, is_superuser |-> FALSE ]

\* self.model(email=..., username=..., first_name=..., last_name=...): the
\* field defaults of User.
NewUser(email, username, first_name, last_name) ==
    [ email |-> email, username |-> username,
      first_name |-> first_name, last_name |-> last_name,
      password |-> <<>>, role |-> NoRole,
      date_joined |-> 0, last_login |-> 0, modified_date |-> 0, created_date |-> 0,
      is_admin |-> FALSE, is_active |-> FALSE, is_superadmin |-> FALSE,
      is_staff |-> FALSE, is_superuser |-> FALSE ]

BlankUser == NewUser(<<>>, <<>>, <<>>, <<>>)

\* UniqueViolation with unique=True on email only.
UniqueViolation_EmailOnly(store, row, pk) ==
    \E q \in DOMAIN store \ {pk} : store[q].email = row.email

\* The unique=True constraints on username and email.
UniqueViolation(store, row, pk) ==
    \E q \in DOMAIN store \ {pk} :
        store[q].email = row.email \/ store[q].username = row.username

\* pre_save with add=True: auto_now_add and auto_now fields take the current time.
PreSaveAdd(obj, t) ==
    [obj EXCEPT !.date_joined = t, !.last_login = t, !.modified_date = t, !.created_date = t]

\* PreSaveUpdate with auto_now on modified_date too.
PreSaveUpdate_TouchModified(obj, t) == [obj EXCEPT !.created_date = t, !.modified_date = t]

\* pre_save with add=False: only the auto_now field takes the current time.
PreSaveUpdate(obj, t) == [obj EXCEPT !.created_date = t]

Put(store, pk, row) == [q \in DOMAIN store \cup {pk} |-> IF q = pk THEN row ELSE store[q]]

\* Model.save(): an object without pk is inserted under a fresh pk; an object
\* with a pk is updated, and inserted under its pk when no row has that pk.
\* A unique violation raises IntegrityError and writes nothing.
Save(store, nid, obj, pk, t) ==
    LET adding == pk = NoPk \/ pk \notin DOMAIN store
        newpk  == IF pk = NoPk THEN nid ELSE pk
        row    == IF adding THEN PreSaveAdd(obj, t) ELSE PreSaveUpdate(obj, t)
    IN  IF UniqueViolation(store, row, newpk)
        THEN [ ok |-> FALSE, users |-> store, nextId |-> nid, obj |-> obj, pk |-> pk ]
        ELSE [ ok |-> TRUE, users |-> Put(store, newpk, row),
               nextId |-> IF pk = NoPk THEN nid + 1 ELSE nid,
               obj |-> row, pk |-> newpk ]

ErrEmail == "User must have an email address"
ErrUsername == "User must have a username"
ErrIntegrity == "IntegrityError"
NoErr == "none"

\* Validate without the username check.
Validate_EmailOnly(username, email) == IF ~Truthy(email) THEN ErrEmail ELSE NoErr

\* The two checks that open create_user: the error raised, or none.
Validate(username, email) ==
    IF ~Truthy(email) THEN ErrEmail
    ELSE IF ~Truthy(username) THEN ErrUsername
    ELSE NoErr

\* UserManager.create_user as a function of the store and its arguments.
create_user(store, nid, t, first_name, last_name, username, email, password) ==
    IF Validate(username, email) # NoErr
    THEN [ ok |-> FALSE, err |-> Validate(username, email), users |-> store, nextId |-> nid,
           obj |-> BlankUser, pk |-> NoPk ]
    ELSE LET user == [ NewUser(normalize_email(email), username, first_name, last_name)
                         EXCEPT !.password = make_password(password) ]
             r    == Save(store, nid, user, NoPk, t)
         IN  IF r.ok
             THEN [ ok |-> TRUE, err |-> NoErr, users |-> r.users, nextId |-> r.nextId,
                    obj |-> r.obj, pk |-> r.pk ]
             ELSE [ ok |-> FALSE, err |-> ErrIntegrity, users |-> store, nextId |-> nid,
                    obj |-> BlankUser, pk |-> NoPk ]

\* Elevate without the is_staff assignment.
Elevate_NoStaff(obj) ==
    [obj EXCEPT !.is_admin = TRUE, !.is_active = TRUE, !.is_superadmin = TRUE,
                !.is_superuser = TRUE]

\* The flag assignments of create_superuser.
Elevate(obj) ==
    [obj EXCEPT !.is_admin = TRUE, !.is_active = TRUE, !.is_superadmin = TRUE,
                !.is_staff = TRUE, !.is_superuser = TRUE]

\* A process outside create_superuser.
Idle == [ running |-> FALSE, obj |-> BlankUser, pk |-> NoPk ]

Busy(p) == run[p].running

NoCall == [ op |-> "none", status |-> "none", err |-> NoErr, writes |-> 0, cascaded |-> 0 ]

NoProbe == [ has_perms |-> "unset", has_module_perms |-> "unset" ]

Init ==
    /\ users = << >>
    /\ nextId = 1
    /\ profiles = << >>
    /\ nextPid = 1
    /\ now = 0
    /\ run = [p \in Procs |-> Idle]
    /\ last = NoCall
    /\ probe = BlankUser
    /\ permRes = NoProbe

\* The clock advances.
Tick ==
    /\ now < MaxTime
    /\ now' = now + 1
    /\ UNCHANGED << users, nextId, profiles, nextPid, run, last, probe, permRes >>

\* A whole call of UserManager.create_user: validation, construction, one save.
CreateUser(p, first_name, last_name, username, email, password) ==
    /\ ~Busy(p)
    /\ nextId <= MaxUsers
    /\ UNCHANGED << profiles, nextPid, now, run, probe, permRes >>
    /\ LET r == create_user(users, nextId, now, first_name, last_name, username, email, password)
       IN  /\ users' = r.users
           /\ nextId' = r.nextId
           /\ last' = [ op |-> "create_user",
                        status |-> IF r.ok THEN "returned" ELSE "raised",
                        err |-> r.err, writes |-> IF r.ok THEN 1 ELSE 0, cascaded |-> 0 ]

\* create_superuser up to the return of its create_user call; an exception of
\* create_user leaves create_superuser at once.
CreateSuperuserBase(p, first_name, last_name, username, email, password) ==
    /\ ~Busy(p)
    /\ nextId <= MaxUsers
    /\ UNCHANGED << profiles, nextPid, now, probe, permRes >>
    /\ LET r == create_user(users, nextId, now, first_name, last_name, username,
                            normalize_email(email), password)
       IN  /\ users' = r.users
           /\ nextId' = r.nextId
           /\ IF r.ok
              THEN /\ run' = [run EXCEPT ![p] = [ running |-> TRUE, obj |-> r.obj, pk |-> r.pk ]]
                   /\ last' = last
              ELSE /\ run' = run
                   /\ last' = [ op |-> "create_superuser", status |-> "raised",
                                err |-> r.err, writes |-> 0, cascaded |-> 0 ]

\* CreateSuperuserElevate without the second save.
CreateSuperuserElevate_NoSave(p) ==
    /\ Busy(p)
    /\ last' = [ op |-> "create_superuser", status |-> "returned", err |-> NoErr,
                 writes |-> 1, cascaded |-> 0 ]
    /\ run' = [run EXCEPT ![p] = Idle]
    /\ UNCHANGED << users, nextId, profiles, nextPid, now, probe, permRes >>

\* create_superuser from the flag assignments to its return: the second save.
CreateSuperuserElevate(p) ==
    /\ Busy(p)
    /\ LET r == Save(users, nextId, Elevate(run[p].obj), run[p].pk, now)
       IN  /\ users' = r.users
           /\ nextId' = r.nextId
           /\ last' = [ op |-> "create_superuser",
                        status |-> IF r.ok THEN "returned" ELSE "raised",
                        err |-> IF r.ok THEN NoErr ELSE ErrIntegrity,
                        writes |-> IF r.ok THEN 2 ELSE 1, cascaded |-> 0 ]
    /\ run' = [run EXCEPT ![p] = Idle]
    /\ UNCHANGED << profiles, nextPid, now, probe, permRes >>

\* ProfilesOf under on_delete=DO_NOTHING: nothing is collected for deletion.
ProfilesOf_NoCascade(prof, pk) == {}

\* Profiles whose user is pk.
ProfilesOf(prof, pk) == { i \in DOMAIN prof : prof[i].user = pk }

Without(f, S) == [q \in DOMAIN f \ S |-> f[q]]

\* User.delete(): on_delete=CASCADE removes the profile with the user.
DeleteUser(pk) ==
    /\ pk \in DOMAIN users
    /\ users' = Without(users, {pk})
    /\ profiles' = Without(profiles, ProfilesOf(profiles, pk))
    /\ last' = [ op |-> "delete", status |-> "returned", err |-> NoErr, writes |-> 1,
                 cascaded |-> Cardinality(ProfilesOf(profiles, pk)) ]
    /\ UNCHANGED << nextId, nextPid, now, run, probe, permRes >>

\* The admin change form of User: every field but role is read-only; the form
\* saves the whole row.
AdminEditRole(pk, role) ==
    /\ pk \in DOMAIN users
    /\ LET r == Save(users, nextId, [users[pk] EXCEPT !.role = role], pk, now)
       IN  /\ r.ok
           /\ users' = r.users
    /\ UNCHANGED << nextId, profiles, nextPid, now, run, last, probe, permRes >>

\* ProfileUserOk for a plain ForeignKey: no uniqueness.
ProfileUserOk_ForeignKeyOnly(prof, id, u, store) == u = NoPk \/ u \in DOMAIN store

\* The OneToOneField of UserProfile: the foreign key must name a row of User
\* (or be null), and no other profile may name the same User.
ProfileUserOk(prof, id, u, store) ==
    \/ u = NoPk
    \/ /\ u \in DOMAIN store
       /\ \A i \in DOMAIN prof \ {id} : prof[i].user # u

\* The admin add form of UserProfile.
CreateProfile(u, city) ==
    /\ nextPid <= MaxProfiles
    /\ ProfileUserOk(profiles, nextPid, u, users)
    /\ profiles' = Put(profiles, nextPid,
                       [ user |-> u, city |-> city, created_at |-> now, modified_at |-> now ])
    /\ nextPid' = nextPid + 1
    /\ UNCHANGED << users, nextId, now, run, last, probe, permRes >>

\* The admin change form of UserProfile: every field is editable, the user too.
EditProfile(id, u, city) ==
    /\ id \in DOMAIN profiles
    /\ ProfileUserOk(profiles, id, u, users)
    /\ profiles' = [profiles EXCEPT ![id] = [ @ EXCEPT !.user = u, !.city = city, !.modified_at = now ]]
    /\ UNCHANGED << users, nextId, nextPid, now, run, last, probe, permRes >>

\* The admin delete of a UserProfile.
DeleteProfile(id) ==
    /\ id \in DOMAIN profiles
    /\ profiles' = Without(profiles, {id})
    /\ UNCHANGED << users, nextId, nextPid, now, run, last, probe, permRes >>

\* has_perms as its comment reads: admin or superadmin only.
has_perms_AdminOnly(user) == user.is_admin \/ user.is_superadmin

\* User.has_perms and User.has_module_perms.
has_perms(user) == user.is_admin \/ user.is_superadmin \/ user.is_staff

has_module_perms(user) == user.is_staff \/ user.is_admin \/ user.is_superadmin

CallHasPerms ==
    /\ permRes.has_perms = "unset"
    /\ permRes' = [permRes EXCEPT !.has_perms = IF has_perms(probe) THEN "true" ELSE "false"]
    /\ UNCHANGED << users, nextId, profiles, nextPid, now, run, last, probe >>

CallHasModulePerms ==
    /\ permRes.has_module_perms = "unset"
    /\ permRes' = [permRes EXCEPT !.has_module_perms =
                       IF has_module_perms(probe) THEN "true" ELSE "false"]
    /\ UNCHANGED << users, nextId, profiles, nextPid, now, run, last, probe >>

CreateCalls ==
    \/ \E p \in Procs, fn \in FirstNames, ln \in LastNames, un \in Usernames,
          em \in Emails, pw \in Passwords : CreateUser(p, fn, ln, un, em, pw)
    \/ \E p \in Procs, fn \in FirstNames, ln \in LastNames, un \in Usernames,
          em \in Emails, pw \in Passwords : CreateSuperuserBase(p, fn, ln, un, em, pw)
    \/ \E p \in Procs : CreateSuperuserElevate(p)

\* The manager, the admin of User and the clock.
NextAccounts ==
    \/ Tick
    \/ CreateCalls
    \/ \E pk \in 1..MaxUsers : DeleteUser(pk)
    \/ \E pk \in 1..MaxUsers, role \in Roles : AdminEditRole(pk, role)

SpecAccounts == Init /\ [][NextAccounts]_vars

\* The manager and the admin of UserProfile, at one instant of the clock.
NextProfiles ==
    \/ CreateCalls
    \/ \E pk \in 1..MaxUsers : DeleteUser(pk)
    \/ \E u \in 0..MaxUsers, city \in Cities : CreateProfile(u, city)
    \/ \E id \in 1..MaxProfiles, u \in 0..MaxUsers, city \in Cities : EditProfile(id, u, city)
    \/ \E id \in 1..MaxProfiles : DeleteProfile(id)

SpecProfiles == Init /\ [][NextProfiles]_vars

\* Every User the predicates can be given: all flag combinations and roles.
ProbeUsers ==
    { [ BlankUser EXCEPT !.is_admin = a, !.is_active = b, !.is_superadmin = c,
                         !.is_staff = d, !.role = r ] :
        a \in BOOLEAN, b \in BOOLEAN, c \in BOOLEAN, d \in BOOLEAN, r \in Roles }

InitPerms ==
    /\ users = << >>
    /\ nextId = 1
    /\ profiles = << >>
    /\ nextPid = 1
    /\ now = 0
    /\ run = [p \in Procs |-> Idle]
    /\ last = NoCall
    /\ probe \in ProbeUsers
    /\ permRes = NoProbe

NextPerms ==
    \/ CallHasPerms
    \/ CallHasModulePerms

SpecPerms == InitPerms /\ [][NextPerms]_vars

\* The whole system: every operation of the three parts above.
Next ==
    \/ NextAccounts
    \/ NextProfiles
    \/ NextPerms

Spec == Init /\ [][Next]_vars

(***************************************************************************)
(* Properties.                                                             *)
(***************************************************************************)
AllFour(u, b) ==
    u.is_admin = b /\ u.is_active = b /\ u.is_superadmin = b /\ u.is_staff = b

\* The arguments pass create_user's two checks.
ValidArgs(un, em) == Truthy(em) /\ Truthy(un)

\* The arguments collide with a persisted User on email (as stored) or username.
Collides(un, em) ==
    \E q \in DOMAIN users :
        users[q].email = normalize_email(em) \/ users[q].username = un

\* Every row of the store before the step is in the store after it, unchanged.
OldRowsKept == \A q \in DOMAIN users : q \in DOMAIN users' /\ users'[q] = users[q]

\* C1: a create_user call with non-empty email and username that collide with
\* no persisted User returns, adds exactly one User to the store, changes no
\* other row, and the new User has is_admin, is_active, is_superadmin and
\* is_staff all false.
C1_CreateUserPersistsOne ==
    [][ \A p \in Procs, fn \in FirstNames, ln \in LastNames, un \in Usernames,
           em \in Emails, pw \in Passwords :
          ( ValidArgs(un, em) /\ ~Collides(un, em) /\ CreateUser(p, fn, ln, un, em, pw) )
          => /\ last'.status = "returned"
             /\ Cardinality(DOMAIN users') = Cardinality(DOMAIN users) + 1
             /\ OldRowsKept
             /\ \A q \in DOMAIN users' \ DOMAIN users :
                   /\ AllFour(users'[q], FALSE)
                   /\ users'[q].username = un
                   /\ users'[q].email = normalize_email(em) ]_vars

\* A create_user call has just added a second User, with all four flags false.
C1_Witness ==
    /\ last.op = "create_user" /\ last.status = "returned"
    /\ Cardinality(DOMAIN users) = 2
    /\ \E q \in DOMAIN users : AllFour(users[q], FALSE)

\* C2: a create_user call with an empty or absent email, or an empty or absent
\* username, raises the validation error and leaves the store as it was.
C2_InvalidCreateUserWritesNothing ==
    [][ \A p \in Procs, fn \in FirstNames, ln \in LastNames, un \in Usernames,
           em \in Emails, pw \in Passwords :
          ( ~ValidArgs(un, em) /\ CreateUser(p, fn, ln, un, em, pw) )
          => /\ last'.status = "raised"
             /\ last'.err \in {ErrEmail, ErrUsername}
             /\ users' = users
             /\ nextId' = nextId ]_vars

\* A create_user call was rejected for its username while a User is persisted.
C2_Witness ==
    /\ last.op = "create_user" /\ last.status = "raised" /\ last.err = ErrUsername
    /\ DOMAIN users # {}

\* C3: when a create_superuser call returns, the User it created is persisted
\* with is_admin, is_active, is_superadmin and is_staff all true.
C3_SuperuserAllFlagsTrue ==
    [][ \A p \in Procs :
          ( CreateSuperuserElevate(p) /\ last'.status = "returned" )
          => /\ run[p].pk \in DOMAIN users'
             /\ AllFour(users'[run[p].pk], TRUE) ]_vars

\* A create_superuser call has returned and its User is persisted, elevated.
C3_Witness ==
    /\ last.op = "create_superuser" /\ last.status = "returned"
    /\ \E q \in DOMAIN users : AllFour(users[q], TRUE)

\* No two persisted Users share an email or a username.
UniqueUsers ==
    \A q1 \in DOMAIN users, q2 \in DOMAIN users :
        q1 # q2 => /\ users[q1].email # users[q2].email
                   /\ users[q1].username # users[q2].username

\* C4: no two persisted Users share an email or a username; a creation call
\* whose email or username is that of a persisted User is rejected without
\* adding a User; and no step of a creation call removes a User or changes
\* its email or username, so of the creation calls that use one email (or one
\* username) at most one succeeds.
C4_UniqueEmailAndUsername ==
    /\ []UniqueUsers
    /\ [][ \A p \in Procs, fn \in FirstNames, ln \in LastNames, un \in Usernames,
              em \in Emails, pw \in Passwords :
             ( /\ ValidArgs(un, em) /\ Collides(un, em)
               /\ CreateUser(p, fn, ln, un, em, pw) \/ CreateSuperuserBase(p, fn, ln, un, em, pw) )
             => /\ users' = users
                /\ last'.status = "raised"
                /\ last'.err = ErrIntegrity ]_vars
    /\ [][ CreateCalls
             => \A q \in DOMAIN users :
                   /\ q \in DOMAIN users'
                   /\ users'[q].email = users[q].email
                   /\ users'[q].username = users[q].username ]_vars

\* A creation call was rejected by a unique constraint while a User is persisted.
C4_Witness ==
    /\ last.status = "raised" /\ last.err = ErrIntegrity /\ last.writes = 0
    /\ DOMAIN users # {}

\* No profile names a User that is not persisted.
NoDanglingProfile ==
    \A i \in DOMAIN profiles : profiles[i].user = NoPk \/ profiles[i].user \in DOMAIN users

\* C5: every persisted User can be deleted, with or without a profile; the
\* deletion removes the User and, in the same step, the profile that names it
\* and no other; so no profile ever names a User that is not persisted.
C5_DeleteCascades ==
    /\ [](NoDanglingProfile /\ \A pk \in DOMAIN users : ENABLED DeleteUser(pk))
    /\ [][ \A pk \in 1..MaxUsers :
             DeleteUser(pk)
             => /\ pk \notin DOMAIN users'
                /\ \A i \in DOMAIN profiles' : profiles'[i].user # pk
                /\ \A i \in DOMAIN profiles :
                      profiles[i].user # pk => i \in DOMAIN profiles' /\ profiles'[i] = profiles[i] ]_vars

\* A User that owned a profile was just deleted, and the profile with it.
C5_Witness ==
    /\ last.op = "delete" /\ last.cascaded = 1
    /\ Cardinality(DOMAIN profiles) < nextPid - 1

AtMostOneProfile ==
    \A pk \in DOMAIN users :
        Cardinality({ i \in DOMAIN profiles : profiles[i].user = pk }) <= 1

\* C7: each persisted User is named by at most one profile, and no step of
\* create_user or create_superuser touches the profiles.
C7_ZeroOrOneProfile ==
    /\ []AtMostOneProfile
    /\ [][ CreateCalls => profiles' = profiles /\ nextPid' = nextPid ]_vars

\* Two profiles are persisted, one of them naming a persisted User.
C7_Witness ==
    /\ Cardinality(DOMAIN profiles) = 2
    /\ \E pk \in DOMAIN users :
          Cardinality({ i \in DOMAIN profiles : profiles[i].user = pk }) = 1

\* C8: no state shows a persisted User created by a create_superuser call
\* still under way whose four flags are not all true.
C8_SuperuserNeverSeenHalfMade ==
    \A p \in Procs :
        ( Busy(p) /\ run[p].pk \in DOMAIN users ) => AllFour(users[run[p].pk], TRUE)

\* C9: a create_user call that returns made one write and a create_superuser
\* call that returns made two, each write changing the store; a call rejected
\* by validation made none, and create_superuser raises the error create_user
\* raises for the same arguments.
C9_WriteCounts ==
    [][ /\ \A p \in Procs, fn \in FirstNames, ln \in LastNames, un \in Usernames,
              em \in Emails, pw \in Passwords :
             /\ CreateUser(p, fn, ln, un, em, pw)
                => /\ last'.writes = IF users' # users THEN 1 ELSE 0
                   /\ last'.status = "returned" => last'.writes = 1
                   /\ ~ValidArgs(un, em) => last'.writes = 0
             /\ CreateSuperuserBase(p, fn, ln, un, em, pw)
                => /\ run'[p].running => users' # users
                   /\ ~run'[p].running => users' = users /\ last'.writes = 0
                   /\ ~ValidArgs(un, em)
                        => /\ ~run'[p].running
                           /\ last'.status = "raised"
                           /\ last'.err = IF Truthy(em) THEN ErrUsername ELSE ErrEmail
        /\ \A p \in Procs :
             CreateSuperuserElevate(p)
             => /\ last'.writes = IF users' # users THEN 2 ELSE 1
                /\ last'.status = "returned" => last'.writes = 2 ]_vars

\* A create_superuser call has returned after its two writes.
C9_Witness ==
    /\ last.op = "create_superuser" /\ last.status = "returned" /\ last.writes = 2
    /\ \E q \in DOMAIN users : users[q].is_superuser

====
